---- MODULE Spec2Model ----
(***************************************************************************)
(* Note repository with a read-through cache (src/app/app.go).             *)
(*                                                                         *)
(* The relational store (postgres through gorm) and the cache (redis       *)
(* hashes) are modelled by what the calls made in app.go do:               *)
(*   - Note embeds gorm.Model, so rows carry DeletedAt: db.Delete is a     *)
(*     soft delete, db.First skips soft-deleted rows, and the unique       *)
(*     index on title still covers them;                                   *)
(*   - db.First(&note) filters on the primary key of note only, and only   *)
(*     when it is non-zero;                                                *)
(*   - DEL with no key is rejected by redis.                               *)
(* Time is a logical clock that ticks on every row the store writes.       *)
(* The store's id sequence is advanced by successful inserts only (the      *)
(* gaps a failed insert leaves in postgres are not modelled).              *)
(***************************************************************************)
EXTENDS Integers, Sequences, FiniteSets, TLC

\* Bounds of the model.
MaxId == 2      \* ids the store's sequence hands out: 1..MaxId
MaxClock == 4   \* the clock starts at 1 and stops here: MaxClock - 1 row writes
MaxReads == 1   \* getter calls of the reader in the runs with concurrent callers
MaxCreates == 1 \* CreateNote calls of each caller in the runs with concurrent creates

Titles == {"", "a", "1"}
Contents == {"x", "y"}
IdInputs == 0..MaxId
Times == 0..MaxClock

VARIABLES cache, store, nextId, now, last, procs

vars == <<cache, store, nextId, now, last, procs>>

\* A nil *Note.
Nil == [nil |-> TRUE]

\* Note{}: the zero value.
ZeroNote == [ID |-> 0, Title |-> "", Content |-> "", CreatedAt |-> 0, UpdatedAt |-> 0]

NewNote(title, content) == [ZeroNote EXCEPT !.Title = title, !.Content = content]

\* The Go-side view of a row (DeletedAt is zero on everything the repository sees).
RowNote(r) == [ID |-> r.ID, Title |-> r.Title, Content |-> r.Content,
               CreatedAt |-> r.CreatedAt, UpdatedAt |-> r.UpdatedAt]

(***************************************************************************)
(* Formatting and parsing                                                  *)
(***************************************************************************)
Digits == <<"0", "1", "2", "3", "4", "5", "6", "7", "8", "9">>

RECURSIVE Itoa(_)
\* fmt.Sprintf("%d", n) / go-redis' encoding of an integer argument.
Itoa(n) == IF n < 0 THEN "-" \o Itoa(-n)
           ELSE IF n < 10 THEN Digits[n + 1]
           ELSE Itoa(n \div 10) \o Digits[(n % 10) + 1]

\* strconv.Atoi on the strings of this model (the ids are not negative).
Atoi(s) == IF \E n \in IdInputs : Itoa(n) = s
           THEN [ok |-> TRUE, val |-> CHOOSE n \in IdInputs : Itoa(n) = s]
           ELSE [ok |-> FALSE, val |-> 0]

\* time.Time.AppendFormat(RFC3339Nano) of clock value t (go-redis writes a
\* time.Time argument this way).
FormatTime(t) == "2024-01-01T00:00:" \o (IF t < 10 THEN "0" \o Itoa(t) ELSE Itoa(t)) \o "Z"

\* time.Parse(time.RFC3339Nano, s).
ParseTime(s) == IF \E t \in Times : FormatTime(t) = s
                THEN [ok |-> TRUE, val |-> CHOOSE t \in Times : FormatTime(t) = s]
                ELSE [ok |-> FALSE, val |-> 0]

IdKey(id) == "notes:" \o Itoa(id)
TitleKey(title) == "notes:" \o title

AllKeys == {IdKey(i) : i \in IdInputs} \cup {TitleKey(t) : t \in Titles}

(***************************************************************************)
(* The cache: key -> hash, a hash being a set of <<field, value>> pairs.   *)
(* A key that does not exist is the empty hash.                            *)
(***************************************************************************)
HGetAll(c, key) == c[key]

\* noteMap[f] on a Go map: the zero string for a missing field.
MapGet(m, f) == IF \E p \in m : p[1] = f THEN (CHOOSE p \in m : p[1] = f)[2] ELSE ""

HSet(c, key, f, v) == [c EXCEPT ![key] = {p \in @ : p[1] # f} \cup {<<f, v>>}]

Exists(c, key) == c[key] # {}

\* redis.Del(ctx, keys...): redis rejects DEL without a key.
RedisDel(c, keys) ==
    IF Len(keys) = 0
    THEN [err |-> "ERR wrong number of arguments for 'del' command", cache |-> c]
    ELSE [err |-> "nil",
          cache |-> [k \in DOMAIN c |->
                        IF \E i \in 1..Len(keys) : keys[i] = k THEN {} ELSE c[k]]]

(***************************************************************************)
(* The relational store: a set of rows                                     *)
(*   [ID, Title, Content, CreatedAt, UpdatedAt, Deleted].                  *)
(***************************************************************************)
Live(s) == {r \in s : ~r.Deleted}

MinIdRow(rows) == CHOOSE r \in rows : \A q \in rows : r.ID <= q.ID

\* db.First(&note) where pk is note's primary key: WHERE id = pk only when pk
\* is non-zero, deleted_at IS NULL, ORDER BY id LIMIT 1.
DbFirst(s, pk) ==
    LET rows == IF pk = 0 THEN Live(s) ELSE {r \in Live(s) : r.ID = pk}
    IN  IF rows = {} THEN [err |-> "ErrRecordNotFound", note |-> ZeroNote]
        ELSE [err |-> "nil", note |-> RowNote(MinIdRow(rows))]

\* The unique index on title covers every row, soft-deleted ones included.
TitleTaken(s, title, id) == \E r \in s : r.Title = title /\ r.ID # id

\* db.Save(note): INSERT when the primary key is zero, else UPDATE of all
\* fields of the live row with that key.
DbSave(s, seq, clock, note) ==
    IF note.ID = 0
    THEN IF TitleTaken(s, note.Title, 0)
         THEN [err |-> "unique_violation", store |-> s, nextId |-> seq,
               now |-> clock, note |-> note, rows |-> 0]
         ELSE LET n == [note EXCEPT !.ID = seq, !.CreatedAt = clock, !.UpdatedAt = clock]
              IN  [err |-> "nil",
                   store |-> s \cup {[ID |-> n.ID, Title |-> n.Title, Content |-> n.Content,
                                      CreatedAt |-> n.CreatedAt, UpdatedAt |-> n.UpdatedAt,
                                      Deleted |-> FALSE]},
                   nextId |-> seq + 1, now |-> clock + 1, note |-> n, rows |-> 1]
    ELSE IF TitleTaken(s, note.Title, note.ID)
         THEN [err |-> "unique_violation", store |-> s, nextId |-> seq,
               now |-> clock, note |-> note, rows |-> 0]
         ELSE LET n == [note EXCEPT !.UpdatedAt = clock]
              IN  [err |-> "nil",
                   store |-> {IF r.ID = n.ID /\ ~r.Deleted
                              THEN [r EXCEPT !.Title = n.Title, !.Content = n.Content,
                                             !.CreatedAt = n.CreatedAt,
                                             !.UpdatedAt = n.UpdatedAt]
                              ELSE r : r \in s},
                   nextId |-> seq, now |-> clock + 1, note |-> n, rows |-> 1]

\* db.Delete that reports a missing row as an error.
DbDeleteStrict(s, clock, id) ==
    IF \E r \in Live(s) : r.ID = id
    THEN [err |-> "nil", now |-> clock + 1, rows |-> 1,
          store |-> {IF r.ID = id THEN [r EXCEPT !.Deleted = TRUE] ELSE r : r \in s}]
    ELSE [err |-> "ErrRecordNotFound", now |-> clock, rows |-> 0, store |-> s]

\* db.Delete(&Note{}, id): soft delete of the live row with that key; no row
\* is not an error.
DbDelete(s, clock, id) ==
    IF \E r \in Live(s) : r.ID = id
    THEN [err |-> "nil", now |-> clock + 1, rows |-> 1,
          store |-> {IF r.ID = id THEN [r EXCEPT !.Deleted = TRUE] ELSE r : r \in s}]
    ELSE [err |-> "nil", now |-> clock, rows |-> 0, store |-> s]

(***************************************************************************)
(* NoteRepository.  Every operation maps a world                           *)
(*   w = [cache, store, nextId, now]                                       *)
(* to an outcome: the world after it, what it returns, and what it did     *)
(* (dbOps: calls to the store, rows: rows the store changed, hsets: HSET   *)
(* calls, dels: DEL calls, saves: SaveNote calls of the Application).      *)
(***************************************************************************)
World == [cache |-> cache, store |-> store, nextId |-> nextId, now |-> now]

Out(w, note, err, hit, dbOps, hsets, dels) ==
    [w |-> w, note |-> note, err |-> err, hit |-> hit,
     dbOps |-> dbOps, rows |-> 0, hsets |-> hsets, dels |-> dels, saves |-> 0]

convertMapToNote(noteMap) ==
    LET noteID    == Atoi(MapGet(noteMap, "id"))
        createdAt == ParseTime(MapGet(noteMap, "created_at"))
        updatedAt == ParseTime(MapGet(noteMap, "updated_at"))
    IN  IF ~noteID.ok THEN [err |-> "atoi", note |-> ZeroNote]
        ELSE IF ~createdAt.ok THEN [err |-> "parse", note |-> ZeroNote]
        ELSE IF ~updatedAt.ok THEN [err |-> "parse", note |-> ZeroNote]
        ELSE [err |-> "nil",
              note |-> [ID |-> noteID.val, Title |-> MapGet(noteMap, "title"),
                        Content |-> MapGet(noteMap, "content"),
                        CreatedAt |-> createdAt.val, UpdatedAt |-> updatedAt.val]]

\* The hash m is not empty and decodes.
WellFormedRecord(m) == m # {} /\ convertMapToNote(m).err = "nil"

\* The cache probe taking a record that does not decode for a miss.
NoteAtKeyLenient(c, key) ==
    LET result == HGetAll(c, key)
    IN  IF result = {} THEN [panic |-> FALSE, note |-> Nil]
        ELSE LET conv == convertMapToNote(result)
             IN  IF conv.err # "nil" THEN [panic |-> FALSE, note |-> Nil]
                 ELSE [panic |-> FALSE, note |-> conv.note]

\* The shared body of getNoteFromCache and getNoteByTitleFromCache.
NoteAtKey(c, key) ==
    LET result == HGetAll(c, key)
    IN  IF result = {} THEN [panic |-> FALSE, note |-> Nil]
        ELSE LET conv == convertMapToNote(result)
             IN  IF conv.err # "nil" THEN [panic |-> TRUE, note |-> Nil]
                 ELSE [panic |-> FALSE, note |-> conv.note]

getNoteFromCache(c, id) == NoteAtKey(c, IdKey(id))

getNoteByTitleFromCache(c, title) == NoteAtKey(c, TitleKey(title))

deleteFromCache(c, note) ==
    LET idKeys    == IF note.ID > 0 THEN <<IdKey(note.ID)>> ELSE <<>>
        titleKeys == IF note.Title # "" THEN <<TitleKey(note.Title)>> ELSE <<>>
    IN  RedisDel(c, idKeys \o titleKeys)

\* noteMap with the two times written as plain numbers.
NoteMapUnixTime(note) ==
    {<<"id", Itoa(note.ID)>>, <<"title", note.Title>>, <<"content", note.Content>>,
     <<"created_at", Itoa(note.CreatedAt)>>,
     <<"updated_at", Itoa(note.UpdatedAt)>>}

\* noteMap of cacheNote, each value as go-redis writes it.
NoteMap(note) ==
    {<<"id", Itoa(note.ID)>>, <<"title", note.Title>>, <<"content", note.Content>>,
     <<"created_at", FormatTime(note.CreatedAt)>>,
     <<"updated_at", FormatTime(note.UpdatedAt)>>}

RECURSIVE HSetBoth(_, _, _, _)
\* The loop of cacheNote: each field is written under the id key, then the title key.
HSetBoth(c, idHashKey, titleHashKey, todo) ==
    IF todo = {} THEN c
    ELSE LET p == CHOOSE q \in todo : TRUE
         IN  HSetBoth(HSet(HSet(c, idHashKey, p[1], p[2]), titleHashKey, p[1], p[2]),
                      idHashKey, titleHashKey, todo \ {p})

\* cacheNote writing the id key only.
cacheNoteIdKeyOnly(c, note) ==
    [err |-> "nil", hsets |-> Cardinality(NoteMap(note)),
     cache |-> HSetBoth(c, IdKey(note.ID), IdKey(note.ID), NoteMap(note))]

cacheNote(c, note) ==
    [err |-> "nil", hsets |-> 2 * Cardinality(NoteMap(note)),
     cache |-> HSetBoth(c, IdKey(note.ID), TitleKey(note.Title), NoteMap(note))]

\* SaveNote that writes the saved note through to the cache.
SaveNoteWriteThrough(w, note) ==
    LET d == deleteFromCache(w.cache, note)
    IN  IF d.err # "nil" THEN Out(w, note, d.err, FALSE, 0, 0, 1)
        ELSE LET result == DbSave(w.store, w.nextId, w.now, note)
                 c      == IF result.err = "nil" THEN cacheNote(d.cache, result.note).cache
                           ELSE d.cache
             IN  [Out([cache |-> c, store |-> result.store,
                       nextId |-> result.nextId, now |-> result.now],
                      result.note, result.err, FALSE, 1, 0, 1)
                    EXCEPT !.rows = result.rows]

SaveNote(w, note) ==
    LET d == deleteFromCache(w.cache, note)
    IN  IF d.err # "nil" THEN Out(w, note, d.err, FALSE, 0, 0, 1)
        ELSE LET result == DbSave(w.store, w.nextId, w.now, note)
             IN  [Out([cache |-> d.cache, store |-> result.store,
                       nextId |-> result.nextId, now |-> result.now],
                      result.note, result.err, FALSE, 1, 0, 1)
                    EXCEPT !.rows = result.rows]

\* The store part of both getters: pk is the primary key of the Note given to
\* db.First.
ReadThrough(w, pk) ==
    LET result == DbFirst(w.store, pk)
    IN  IF result.err = "ErrRecordNotFound" THEN Out(w, Nil, "nil", FALSE, 1, 0, 0)
        ELSE IF result.err # "nil" THEN Out(w, Nil, "panic", FALSE, 1, 0, 0)
        ELSE LET c == cacheNote(w.cache, result.note)
             IN  Out([w EXCEPT !.cache = c.cache], result.note, "nil", FALSE, 1, c.hsets, 0)

\* GetNoteById that does not return on a cache hit.
GetNoteByIdNoHit(w, id) ==
    LET cachedNote == getNoteFromCache(w.cache, id)
    IN  IF cachedNote.panic THEN Out(w, Nil, "panic", FALSE, 0, 0, 0)
        ELSE ReadThrough(w, id)

GetNoteById(w, id) ==
    LET cachedNote == getNoteFromCache(w.cache, id)
    IN  IF cachedNote.panic THEN Out(w, Nil, "panic", FALSE, 0, 0, 0)
        ELSE IF cachedNote.note # Nil THEN Out(w, cachedNote.note, "nil", TRUE, 0, 0, 0)
        ELSE ReadThrough(w, id)

\* note := Note{Title: title}: the primary key given to db.First is zero.
GetNoteByTitle(w, title) ==
    LET cachedNote == getNoteByTitleFromCache(w.cache, title)
    IN  IF cachedNote.panic THEN Out(w, Nil, "panic", FALSE, 0, 0, 0)
        ELSE IF cachedNote.note # Nil THEN Out(w, cachedNote.note, "nil", TRUE, 0, 0, 0)
        ELSE ReadThrough(w, 0)

DeleteNote(w, id) ==
    LET cachedNote == getNoteFromCache(w.cache, id)
    IN  IF cachedNote.panic THEN Out(w, Nil, "panic", FALSE, 0, 0, 0)
        ELSE LET hit == cachedNote.note # Nil
                 d   == IF hit THEN deleteFromCache(w.cache, cachedNote.note)
                        ELSE [err |-> "nil", cache |-> w.cache]
                 n   == IF hit THEN 1 ELSE 0
             IN  IF d.err # "nil" THEN Out(w, Nil, d.err, hit, 0, 0, n)
                 ELSE LET result == DbDelete(w.store, w.now, id)
                      IN  [Out([w EXCEPT !.cache = d.cache, !.store = result.store,
                                         !.now = result.now],
                               Nil, result.err, hit, 1, 0, n)
                             EXCEPT !.rows = result.rows]

(***************************************************************************)
(* Application                                                             *)
(***************************************************************************)
Merge(first, second, note, err) ==
    [w |-> second.w, note |-> note, err |-> err, hit |-> first.hit,
     dbOps |-> first.dbOps + second.dbOps, rows |-> second.rows,
     hsets |-> first.hsets + second.hsets,
     dels |-> first.dels + second.dels, saves |-> second.saves]

AppCreateNote(w, title, content) ==
    LET existingNote == GetNoteByTitle(w, title)
    IN  IF existingNote.err = "panic" THEN existingNote
        ELSE IF existingNote.note # Nil
        THEN [existingNote EXCEPT !.note = ZeroNote, !.err = "DuplicateNoteError"]
        ELSE LET s == [SaveNote(existingNote.w, NewNote(title, content)) EXCEPT !.saves = 1]
             IN  IF s.err # "nil"
                 THEN Merge(existingNote, s, ZeroNote, "SomethingWentWrongError")
                 ELSE Merge(existingNote, s, s.note, "nil")

AppUpdateNote(w, id, content) ==
    LET note == GetNoteById(w, id)
    IN  IF note.err = "panic" THEN note
        ELSE IF note.note = Nil
        THEN [note EXCEPT !.note = ZeroNote, !.err = "NoteNotFoundError"]
        ELSE LET s == [SaveNote(note.w, [note.note EXCEPT !.Content = content])
                          EXCEPT !.saves = 1]
             IN  IF s.err # "nil"
                 THEN Merge(note, s, ZeroNote, "SomethingWentWrongError")
                 ELSE Merge(note, s, s.note, "nil")

AppGetNoteById(w, id) ==
    LET note == GetNoteById(w, id)
    IN  IF note.err = "panic" THEN note
        ELSE IF note.note = Nil
        THEN [note EXCEPT !.note = ZeroNote, !.err = "NoteNotFoundError"]
        ELSE note

AppDeleteNote(w, id) ==
    LET note == GetNoteById(w, id)
    IN  IF note.err = "panic" THEN note
        ELSE IF note.note = Nil
        THEN [note EXCEPT !.note = ZeroNote, !.err = "NoteNotFoundError"]
        ELSE LET d == DeleteNote(note.w, id)
             IN  Merge(note, d, d.note, d.err)

(***************************************************************************)
(* The same calls when a backend does not answer.  A call runs under a     *)
(* fault f, f.kind being                                                   *)
(*   "none"   both backends answer;                                        *)
(*   "db"     every call to the store returns DbDown;                      *)
(*   "redis"  every command to the cache returns RedisDown (HGetAll(..)    *)
(*            .Val() is then the empty map);                               *)
(*   "hset"   redis stops answering inside the loop of cacheNote, after    *)
(*            some HSETs have been applied.                                *)
(***************************************************************************)
DbDown == "db: connection refused"
RedisDown == "redis: connection refused"

Fields == {"id", "title", "content", "created_at", "updated_at"}

NoFault == [kind |-> "none", both |-> {}, extra |-> {}]
DbFault == [kind |-> "db", both |-> {}, extra |-> {}]
RedisFault == [kind |-> "redis", both |-> {}, extra |-> {}]

\* Where the loop of cacheNote is when an HSET fails.  The map is ranged over
\* in any order; the failure is placed in the last round of the loop: every
\* field but one (any one) is written under both keys, and that one under the
\* id key only (extra) or under neither.
PartialWrites ==
    {[kind |-> "hset", both |-> Fields \ {x}, extra |-> {}] : x \in Fields}
    \cup {[kind |-> "hset", both |-> Fields \ {x}, extra |-> {x}] : x \in Fields}

\* cacheNote returning the error of the HSET that failed.
cacheNoteF(c, note, pw) ==
    LET idHashKey    == IdKey(note.ID)
        titleHashKey == TitleKey(note.Title)
        written      == HSetBoth(c, idHashKey, titleHashKey,
                                 {p \in NoteMap(note) : p[1] \in pw.both})
    IN  [err |-> RedisDown,
         hsets |-> 2 * Cardinality(pw.both) + Cardinality(pw.extra) + 1,
         cache |-> HSetBoth(written, idHashKey, idHashKey,
                            {p \in NoteMap(note) : p[1] \in pw.extra})]

\* SaveNote that writes the store first and invalidates afterwards.
SaveNoteStoreFirst(w, note, f) ==
    LET result == IF f.kind = "db"
                  THEN [err |-> DbDown, store |-> w.store, nextId |-> w.nextId,
                        now |-> w.now, note |-> note, rows |-> 0]
                  ELSE DbSave(w.store, w.nextId, w.now, note)
    IN  IF result.err # "nil" THEN Out(w, note, result.err, FALSE, 1, 0, 0)
        ELSE LET d == IF f.kind = "redis" THEN [err |-> RedisDown, cache |-> w.cache]
                      ELSE deleteFromCache(w.cache, result.note)
             IN  [Out([cache |-> d.cache, store |-> result.store,
                       nextId |-> result.nextId, now |-> result.now],
                      result.note, d.err, FALSE, 1, 0, 1)
                    EXCEPT !.rows = result.rows]

SaveNoteF(w, note, f) ==
    IF f.kind = "redis" THEN Out(w, note, RedisDown, FALSE, 0, 0, 1)
    ELSE IF f.kind = "db"
    THEN LET d == deleteFromCache(w.cache, note)
         IN  IF d.err # "nil" THEN Out(w, note, d.err, FALSE, 0, 0, 1)
             ELSE Out([w EXCEPT !.cache = d.cache], note, DbDown, FALSE, 1, 0, 1)
    ELSE SaveNote(w, note)

\* The store part of both getters under f; the cache was probed and missed.
ReadThroughF(w, pk, f) ==
    IF f.kind = "db" THEN Out(w, Nil, "panic", FALSE, 1, 0, 0)
    ELSE LET result == DbFirst(w.store, pk)
         IN  IF result.err = "ErrRecordNotFound" THEN Out(w, Nil, "nil", FALSE, 1, 0, 0)
             ELSE LET c == cacheNoteF(w.cache, result.note, f)
                  IN  Out([w EXCEPT !.cache = c.cache], Nil, "panic", FALSE, 1, c.hsets, 0)

GetNoteByIdF(w, id, f) ==
    IF f.kind = "none" THEN GetNoteById(w, id)
    ELSE IF f.kind = "redis" THEN ReadThroughF(w, id, f)
    ELSE LET cachedNote == getNoteFromCache(w.cache, id)
         IN  IF cachedNote.panic THEN Out(w, Nil, "panic", FALSE, 0, 0, 0)
             ELSE IF cachedNote.note # Nil THEN Out(w, cachedNote.note, "nil", TRUE, 0, 0, 0)
             ELSE ReadThroughF(w, id, f)

GetNoteByTitleF(w, title, f) ==
    IF f.kind = "none" THEN GetNoteByTitle(w, title)
    ELSE IF f.kind = "redis" THEN ReadThroughF(w, 0, f)
    ELSE LET cachedNote == getNoteByTitleFromCache(w.cache, title)
         IN  IF cachedNote.panic THEN Out(w, Nil, "panic", FALSE, 0, 0, 0)
             ELSE IF cachedNote.note # Nil THEN Out(w, cachedNote.note, "nil", TRUE, 0, 0, 0)
             ELSE ReadThroughF(w, 0, f)

\* DeleteNote does not call cacheNote: f.kind is "none", "db" or "redis".
DeleteNoteF(w, id, f) ==
    IF f.kind = "redis"
    THEN LET result == DbDelete(w.store, w.now, id)
         IN  [Out([w EXCEPT !.store = result.store, !.now = result.now],
                  Nil, result.err, FALSE, 1, 0, 0)
                EXCEPT !.rows = result.rows]
    ELSE IF f.kind = "db"
    THEN LET cachedNote == getNoteFromCache(w.cache, id)
         IN  IF cachedNote.panic THEN Out(w, Nil, "panic", FALSE, 0, 0, 0)
             ELSE LET hit == cachedNote.note # Nil
                      d   == IF hit THEN deleteFromCache(w.cache, cachedNote.note)
                             ELSE [err |-> "nil", cache |-> w.cache]
                      n   == IF hit THEN 1 ELSE 0
                  IN  IF d.err # "nil" THEN Out(w, Nil, d.err, hit, 0, 0, n)
                      ELSE Out([w EXCEPT !.cache = d.cache], Nil, DbDown, hit, 1, 0, n)
    ELSE DeleteNote(w, id)

\* The Application over a repository whose two calls run under f1 and f2.
AppCreateNoteF(w, title, content, f1, f2) ==
    LET existingNote == GetNoteByTitleF(w, title, f1)
    IN  IF existingNote.err = "panic" THEN existingNote
        ELSE IF existingNote.note # Nil
        THEN [existingNote EXCEPT !.note = ZeroNote, !.err = "DuplicateNoteError"]
        ELSE LET s == [SaveNoteF(existingNote.w, NewNote(title, content), f2)
                          EXCEPT !.saves = 1]
             IN  IF s.err # "nil"
                 THEN Merge(existingNote, s, ZeroNote, "SomethingWentWrongError")
                 ELSE Merge(existingNote, s, s.note, "nil")

AppUpdateNoteF(w, id, content, f1, f2) ==
    LET note == GetNoteByIdF(w, id, f1)
    IN  IF note.err = "panic" THEN note
        ELSE IF note.note = Nil
        THEN [note EXCEPT !.note = ZeroNote, !.err = "NoteNotFoundError"]
        ELSE LET s == [SaveNoteF(note.w, [note.note EXCEPT !.Content = content], f2)
                          EXCEPT !.saves = 1]
             IN  IF s.err # "nil"
                 THEN Merge(note, s, ZeroNote, "SomethingWentWrongError")
                 ELSE Merge(note, s, s.note, "nil")

AppGetNoteByIdF(w, id, f1) ==
    LET note == GetNoteByIdF(w, id, f1)
    IN  IF note.err = "panic" THEN note
        ELSE IF note.note = Nil
        THEN [note EXCEPT !.note = ZeroNote, !.err = "NoteNotFoundError"]
        ELSE note

AppDeleteNoteF(w, id, f1, f2) ==
    LET note == GetNoteByIdF(w, id, f1)
    IN  IF note.err = "panic" THEN note
        ELSE IF note.note = Nil
        THEN [note EXCEPT !.note = ZeroNote, !.err = "NoteNotFoundError"]
        ELSE LET d == DeleteNoteF(note.w, id, f2)
             IN  Merge(note, d, d.note, d.err)

(***************************************************************************)
(* The state machine: one caller, one call at a time.                      *)
(***************************************************************************)
\* The notes a caller updates: a copy of a live row with a new title and/or content.
ModifiedCopies == {[RowNote(r) EXCEPT !.Title = t, !.Content = c] :
                      r \in Live(store), t \in Titles, c \in Contents}

InBounds(w) == w.now <= MaxClock /\ w.nextId <= MaxId + 1

\* Two callers of one repository: "w" writes, "r" reads.
Procs == {"w", "r"}

\* What a caller holds between the backend calls of the repository call it
\* is in: pc is the backend call it makes next, note the note in hand, key
\* and pk the cache key and the primary key of its query, todo the fields
\* the loop of cacheNote has not reached, cur the field it has written under
\* the id key and not yet under the title key.  err and note are what its
\* last call returned; short tells that the record it read from the cache
\* was not empty and had fewer than five fields; stale that its SaveNote
\* started, with no reader left to overlap it, while the id key and the
\* title key held a record of the note that is not the store's; calls
\* counts the getter calls it has started.
Idle == [pc |-> "idle", op |-> "none", note |-> Nil, key |-> "", pk |-> 0,
         todo |-> {}, cur |-> {}, err |-> "nil", short |-> FALSE,
         stale |-> FALSE, calls |-> 0]

\* A call made while the backends behave as f says ("none": both answer).
ApplyF(op, id, title, content, f, o) ==
    /\ InBounds(o.w)
    /\ cache' = o.w.cache
    /\ store' = o.w.store
    /\ nextId' = o.w.nextId
    /\ now' = o.w.now
    /\ last' = [op |-> op, id |-> id, title |-> title, content |-> content,
                note |-> o.note, err |-> o.err, hit |-> o.hit, dbOps |-> o.dbOps,
                rows |-> o.rows, hsets |-> o.hsets, dels |-> o.dels, saves |-> o.saves,
                fault |-> f.kind]
    /\ procs' = procs

Apply(op, id, title, content, o) == ApplyF(op, id, title, content, NoFault, o)

Init ==
    /\ cache = [k \in AllKeys |-> {}]
    /\ store = {}
    /\ nextId = 1
    /\ now = 1
    /\ last = [op |-> "init", id |-> 0, title |-> "", content |-> "",
               note |-> Nil, err |-> "nil", hit |-> FALSE, dbOps |-> 0,
               rows |-> 0, hsets |-> 0, dels |-> 0, saves |-> 0, fault |-> "none"]
    /\ procs = [p \in Procs |-> Idle]

CallSaveNewNote ==
    \E t \in Titles, c \in Contents :
        Apply("SaveNote", 0, t, c, SaveNote(World, NewNote(t, c)))

CallSaveUpdatedNote ==
    \E n \in ModifiedCopies :
        Apply("SaveNote", n.ID, n.Title, n.Content, SaveNote(World, n))

CallGetNoteById ==
    \E id \in IdInputs :
        Apply("GetNoteById", id, "", "", GetNoteById(World, id))

CallGetNoteByTitle ==
    \E t \in Titles :
        Apply("GetNoteByTitle", 0, t, "", GetNoteByTitle(World, t))

CallDeleteNote ==
    \E id \in IdInputs :
        Apply("DeleteNote", id, "", "", DeleteNote(World, id))

CallAppCreateNote ==
    \E t \in Titles, c \in Contents :
        Apply("App.CreateNote", 0, t, c, AppCreateNote(World, t, c))

CallAppUpdateNote ==
    \E id \in IdInputs, c \in Contents :
        Apply("App.UpdateNote", id, "", c, AppUpdateNote(World, id, c))

CallAppGetNoteById ==
    \E id \in IdInputs :
        Apply("App.GetNoteById", id, "", "", AppGetNoteById(World, id))

CallAppDeleteNote ==
    \E id \in IdInputs :
        Apply("App.DeleteNote", id, "", "", AppDeleteNote(World, id))

\* The repository, called directly (as the repository's tests do).
Next ==
    \/ CallSaveNewNote
    \/ CallSaveUpdatedNote
    \/ CallGetNoteById
    \/ CallGetNoteByTitle
    \/ CallDeleteNote

Spec == Init /\ [][Next]_vars

\* The repository behind the Application's use cases.
NextApp ==
    \/ CallAppCreateNote
    \/ CallAppUpdateNote
    \/ CallAppGetNoteById
    \/ CallAppDeleteNote

SpecApp == Init /\ [][NextApp]_vars

\* The backends a call can find: both up, one of them down.
Outages == {NoFault, DbFault, RedisFault}

\* Every fault a getter can meet.
Faults == Outages \cup PartialWrites

\* In the specifications with failing backends the callers keep one live
\* note at a time: a new note is saved when the store holds no live note.
CallSaveNewNoteF ==
    \E t \in Titles, c \in Contents, f \in Outages :
        /\ Live(store) = {}
        /\ ApplyF("SaveNote", 0, t, c, f, SaveNoteF(World, NewNote(t, c), f))

CallSaveUpdatedNoteF ==
    \E n \in ModifiedCopies, f \in Outages :
        ApplyF("SaveNote", n.ID, n.Title, n.Content, f, SaveNoteF(World, n, f))

CallGetNoteByIdF ==
    \E id \in IdInputs, f \in Faults :
        ApplyF("GetNoteById", id, "", "", f, GetNoteByIdF(World, id, f))

CallGetNoteByTitleF ==
    \E t \in Titles, f \in Faults :
        ApplyF("GetNoteByTitle", 0, t, "", f, GetNoteByTitleF(World, t, f))

\* The repository when SaveNote meets a backend that is down.
NextFault ==
    \/ CallSaveNewNoteF
    \/ CallSaveUpdatedNoteF
    \/ CallGetNoteById
    \/ CallGetNoteByTitle
    \/ CallDeleteNote

SpecFault == Init /\ [][NextFault]_vars

CallSaveOneNote ==
    /\ Live(store) = {}
    /\ CallSaveNewNote

\* The repository when a getter meets a backend that fails, cacheNote
\* included: the cache then holds records that lack a field.
NextCorrupt ==
    \/ CallSaveOneNote
    \/ CallGetNoteByIdF
    \/ CallGetNoteByTitleF
    \/ CallDeleteNote

SpecCorrupt == Init /\ [][NextCorrupt]_vars

CallAppCreateNoteF ==
    \E t \in Titles, c \in Contents, f1 \in Outages, f2 \in Outages :
        ApplyF("App.CreateNote", 0, t, c, IF f1 = NoFault THEN f2 ELSE f1,
               AppCreateNoteF(World, t, c, f1, f2))

CallAppUpdateNoteF ==
    \E id \in IdInputs, c \in Contents, f1 \in Outages, f2 \in Outages :
        ApplyF("App.UpdateNote", id, "", c, IF f1 = NoFault THEN f2 ELSE f1,
               AppUpdateNoteF(World, id, c, f1, f2))

CallAppGetNoteByIdF ==
    \E id \in IdInputs, f1 \in Outages :
        ApplyF("App.GetNoteById", id, "", "", f1, AppGetNoteByIdF(World, id, f1))

CallAppDeleteNoteF ==
    \E id \in IdInputs, f1 \in Outages, f2 \in Outages :
        ApplyF("App.DeleteNote", id, "", "", IF f1 = NoFault THEN f2 ELSE f1,
               AppDeleteNoteF(World, id, f1, f2))

\* The Application over backends that can fail.
NextAppFault ==
    \/ CallAppCreateNoteF
    \/ CallAppUpdateNoteF
    \/ CallAppGetNoteByIdF
    \/ CallAppDeleteNoteF

SpecAppFault == Init /\ [][NextAppFault]_vars

(***************************************************************************)
(* Concurrent callers.  The repository holds no lock, so two calls          *)
(* interleave between their backend calls; one redis command and one SQL   *)
(* statement are atomic.  A step below is one backend call of one caller,  *)
(* together with the Go code up to the next one.                           *)
(***************************************************************************)
\* Caller p moves to local state l.
Move(p, l) == procs' = [procs EXCEPT ![p] = l]

\* The reader has made its calls and is in none: it overlaps no later call.
ReaderDone == procs["r"].pc = "idle" /\ procs["r"].calls = MaxReads

\* Caller p returns note and err.
Return(p, note, err, short) ==
    Move(p, [procs[p] EXCEPT !.pc = "idle", !.note = note, !.err = err,
                             !.short = short, !.key = "", !.pk = 0,
                             !.todo = {}, !.cur = {}])

\* The id key and the title key of the record under notes:<id> hold one
\* record of note id that differs from the store's row.
StaleUnderBothKeys(c, s, id) ==
    /\ WellFormedRecord(c[IdKey(id)])
    /\ Cardinality(c[IdKey(id)]) = Cardinality(Fields)
    /\ LET cached == convertMapToNote(c[IdKey(id)]).note
       IN  /\ cached.ID = id
           /\ c[TitleKey(cached.Title)] = c[IdKey(id)]
           /\ \E r \in Live(s) : r.ID = id /\ RowNote(r) # cached

\* SaveNote, line 164: deleteFromCache.
SaveNoteInvalidate(p, note) ==
    /\ procs[p].pc = "idle"
    /\ LET d == deleteFromCache(cache, note)
           l == [Idle EXCEPT !.op = "SaveNote", !.note = note,
                             !.stale = /\ ReaderDone
                                       /\ StaleUnderBothKeys(cache, store, note.ID)]
       IN  /\ cache' = d.cache
           /\ IF d.err # "nil" THEN Move(p, [l EXCEPT !.err = d.err])
              ELSE Move(p, [l EXCEPT !.pc = "save"])
    /\ UNCHANGED <<store, nextId, now, last>>

\* The callers work on one note: a new note is saved into the empty store.
StartSaveNewNote(p) ==
    /\ store = {}
    /\ \E t \in Titles, c \in Contents : SaveNoteInvalidate(p, NewNote(t, c))

StartSaveUpdatedNote(p) ==
    \E n \in ModifiedCopies : SaveNoteInvalidate(p, n)

\* SaveNote, lines 168-172: db.Save.
SaveNoteUpsert(p) ==
    /\ procs[p].pc = "save"
    /\ LET result == DbSave(store, nextId, now, procs[p].note)
       IN  /\ result.now <= MaxClock /\ result.nextId <= MaxId + 1
           /\ store' = result.store
           /\ nextId' = result.nextId
           /\ now' = result.now
           /\ Return(p, result.note, result.err, FALSE)
    /\ UNCHANGED <<cache, last>>

\* getNoteFromCache / getNoteByTitleFromCache (lines 180-183, 204-207):
\* HGETALL of key; pk is the primary key db.First gets on a miss.
Probe(p, op, key, pk) ==
    /\ procs[p].pc = "idle"
    /\ procs[p].calls < MaxReads
    /\ LET cachedNote == NoteAtKey(cache, key)
           short      == cache[key] # {} /\ Cardinality(cache[key]) < 5
           l          == [Idle EXCEPT !.op = op, !.key = key, !.pk = pk,
                                     !.calls = procs[p].calls + 1]
       IN  IF cachedNote.panic THEN Move(p, [l EXCEPT !.err = "panic", !.short = short])
           ELSE IF cachedNote.note # Nil
           THEN Move(p, [l EXCEPT !.note = cachedNote.note, !.short = short])
           ELSE Move(p, [l EXCEPT !.pc = "first"])
    /\ UNCHANGED <<cache, store, nextId, now, last>>

StartGetNoteById(p) ==
    \E id \in IdInputs : Probe(p, "GetNoteById", IdKey(id), id)

StartGetNoteByTitle(p) ==
    \E t \in Titles : Probe(p, "GetNoteByTitle", TitleKey(t), 0)

\* Lines 184-191, 208-215: db.First.
GetterFirst(p) ==
    /\ procs[p].pc = "first"
    /\ LET result == DbFirst(store, procs[p].pk)
       IN  IF result.err = "ErrRecordNotFound" THEN Return(p, Nil, "nil", FALSE)
           ELSE Move(p, [procs[p] EXCEPT !.pc = "hset", !.note = result.note,
                                         !.todo = Fields])
    /\ UNCHANGED <<cache, store, nextId, now, last>>

\* The map literal of cacheNote in the order of its keys (lines 141-145).
FieldOrder == <<"id", "title", "content", "created_at", "updated_at">>

\* The field before f in that order, the last one before the first.
Before(f) ==
    LET i == CHOOSE j \in 1..Len(FieldOrder) : FieldOrder[j] = f
    IN  FieldOrder[IF i = 1 THEN Len(FieldOrder) ELSE i - 1]

\* range over the map: Go's runtime starts a small map at a slot it draws at
\* random and goes round from there, so the loop begins at any field and
\* then follows the order of the map.
NextFields(todo) ==
    IF todo = Fields THEN Fields ELSE {f \in todo : Before(f) \notin todo}

\* cacheNote, line 148: HSET of the next field of the map under the id key.
CacheNoteHSetId(p) ==
    /\ procs[p].pc = "hset"
    /\ procs[p].cur = {}
    /\ \E f \in NextFields(procs[p].todo) :
          /\ cache' = HSet(cache, IdKey(procs[p].note.ID), f,
                           MapGet(NoteMap(procs[p].note), f))
          /\ Move(p, [procs[p] EXCEPT !.todo = @ \ {f}, !.cur = {f}])
    /\ UNCHANGED <<store, nextId, now, last>>

\* cacheNote, line 152: HSET of the same field under the title key; after
\* the last field the getter returns the note.
CacheNoteHSetTitle(p) ==
    /\ procs[p].pc = "hset"
    /\ \E f \in procs[p].cur :
          /\ cache' = HSet(cache, TitleKey(procs[p].note.Title), f,
                           MapGet(NoteMap(procs[p].note), f))
          /\ IF procs[p].todo = {} THEN Return(p, procs[p].note, "nil", FALSE)
             ELSE Move(p, [procs[p] EXCEPT !.cur = {}])
    /\ UNCHANGED <<store, nextId, now, last>>

\* DeleteNote, line 226: getNoteFromCache.
StartDeleteNote(p) ==
    /\ procs[p].pc = "idle"
    /\ \E id \in IdInputs :
          LET cachedNote == NoteAtKey(cache, IdKey(id))
              short      == cache[IdKey(id)] # {} /\ Cardinality(cache[IdKey(id)]) < 5
              l          == [Idle EXCEPT !.op = "DeleteNote", !.pk = id]
          IN  IF cachedNote.panic THEN Move(p, [l EXCEPT !.err = "panic", !.short = short])
              ELSE IF cachedNote.note # Nil
              THEN Move(p, [l EXCEPT !.pc = "del", !.note = cachedNote.note,
                                     !.short = short])
              ELSE Move(p, [l EXCEPT !.pc = "delete"])
    /\ UNCHANGED <<cache, store, nextId, now, last>>

\* DeleteNote, lines 227-232: deleteFromCache of the cached note.
DeleteNoteInvalidate(p) ==
    /\ procs[p].pc = "del"
    /\ LET d == deleteFromCache(cache, procs[p].note)
       IN  /\ cache' = d.cache
           /\ IF d.err # "nil" THEN Return(p, Nil, d.err, procs[p].short)
              ELSE Move(p, [procs[p] EXCEPT !.pc = "delete"])
    /\ UNCHANGED <<store, nextId, now, last>>

\* DeleteNote, lines 233-234: db.Delete.
DeleteNoteRow(p) ==
    /\ procs[p].pc = "delete"
    /\ LET result == DbDelete(store, now, procs[p].pk)
       IN  /\ result.now <= MaxClock
           /\ store' = result.store
           /\ now' = result.now
           /\ Return(p, Nil, result.err, procs[p].short)
    /\ UNCHANGED <<cache, nextId, last>>

\* One caller writing (SaveNote, DeleteNote) and one caller reading.
NextRace ==
    \/ StartSaveNewNote("w")
    \/ StartSaveUpdatedNote("w")
    \/ SaveNoteUpsert("w")
    \/ StartDeleteNote("w")
    \/ DeleteNoteInvalidate("w")
    \/ DeleteNoteRow("w")
    \/ StartGetNoteById("r")
    \/ StartGetNoteByTitle("r")
    \/ GetterFirst("r")
    \/ CacheNoteHSetId("r")
    \/ CacheNoteHSetTitle("r")

SpecRace == Init /\ [][NextRace]_vars

(***************************************************************************)
(* Concurrent Application.CreateNote calls.  Each caller runs CreateNote   *)
(* one backend call at a time: the probe of the title key, db.First, the   *)
(* HSETs of cacheNote when a note was found, else the DEL and the db.Save  *)
(* of SaveNote.  key keeps the title key of the caller's last call.        *)
(***************************************************************************)
\* CreateNote returns note and err to caller p.
CreateNoteReturn(p, note, err) ==
    Move(p, [procs[p] EXCEPT !.pc = "idle", !.note = note, !.err = err,
                             !.pk = 0, !.todo = {}, !.cur = {}])

\* Line 244, GetNoteByTitle, lines 204-207: HGETALL of the title key.
StartCreateNote(p) ==
    /\ procs[p].pc = "idle"
    /\ procs[p].calls < MaxCreates
    /\ \E title \in Titles, content \in Contents :
          LET cachedNote == NoteAtKey(cache, TitleKey(title))
              l          == [Idle EXCEPT !.op = "App.CreateNote",
                                         !.key = TitleKey(title),
                                         !.note = NewNote(title, content),
                                         !.calls = procs[p].calls + 1]
          IN  IF cachedNote.panic THEN Move(p, [l EXCEPT !.err = "panic"])
              ELSE IF cachedNote.note # Nil
              THEN Move(p, [l EXCEPT !.note = ZeroNote, !.err = "DuplicateNoteError"])
              ELSE Move(p, [l EXCEPT !.pc = "first"])
    /\ UNCHANGED <<cache, store, nextId, now, last>>

\* GetNoteByTitle, lines 208-215: db.First(&Note{Title: title}); no row sends
\* CreateNote on to SaveNote (lines 245-249).
CreateNoteFirst(p) ==
    /\ procs[p].pc = "first"
    /\ LET result == DbFirst(store, 0)
       IN  IF result.err = "ErrRecordNotFound"
           THEN Move(p, [procs[p] EXCEPT !.pc = "invalidate"])
           ELSE Move(p, [procs[p] EXCEPT !.pc = "hset", !.note = result.note,
                                         !.todo = Fields])
    /\ UNCHANGED <<cache, store, nextId, now, last>>

\* cacheNote, line 152, inside GetNoteByTitle; after the last field
\* GetNoteByTitle returns the note and CreateNote DuplicateNoteError (line 246).
CreateNoteHSetTitle(p) ==
    /\ procs[p].pc = "hset"
    /\ \E f \in procs[p].cur :
          /\ cache' = HSet(cache, TitleKey(procs[p].note.Title), f,
                           MapGet(NoteMap(procs[p].note), f))
          /\ IF procs[p].todo = {}
             THEN CreateNoteReturn(p, ZeroNote, "DuplicateNoteError")
             ELSE Move(p, [procs[p] EXCEPT !.cur = {}])
    /\ UNCHANGED <<store, nextId, now, last>>

\* SaveNote, line 164, called from line 249: deleteFromCache.
CreateNoteInvalidate(p) ==
    /\ procs[p].pc = "invalidate"
    /\ LET d == deleteFromCache(cache, procs[p].note)
       IN  /\ cache' = d.cache
           /\ IF d.err # "nil"
              THEN CreateNoteReturn(p, ZeroNote, "SomethingWentWrongError")
              ELSE Move(p, [procs[p] EXCEPT !.pc = "save"])
    /\ UNCHANGED <<store, nextId, now, last>>

\* SaveNote, lines 168-172: db.Save; lines 249-252 of CreateNote.
CreateNoteUpsert(p) ==
    /\ procs[p].pc = "save"
    /\ LET result == DbSave(store, nextId, now, procs[p].note)
       IN  /\ result.now <= MaxClock /\ result.nextId <= MaxId + 1
           /\ store' = result.store
           /\ nextId' = result.nextId
           /\ now' = result.now
           /\ IF result.err # "nil"
              THEN CreateNoteReturn(p, ZeroNote, "SomethingWentWrongError")
              ELSE CreateNoteReturn(p, result.note, "nil")
    /\ UNCHANGED <<cache, last>>

\* Two callers, each calling CreateNote.
NextCreate ==
    \E p \in Procs :
        \/ StartCreateNote(p)
        \/ CreateNoteFirst(p)
        \/ CacheNoteHSetId(p)
        \/ CreateNoteHSetTitle(p)
        \/ CreateNoteInvalidate(p)
        \/ CreateNoteUpsert(p)

SpecCreate == Init /\ [][NextCreate]_vars

(***************************************************************************)
(* Properties                                                              *)
(***************************************************************************)
\* The live row with primary key id, as a set (empty or a singleton).
LiveById(s, id) == {r \in Live(s) : r.ID = id}

\* The five fields a cached copy of row r holds.
FiveFields(r) ==
    {<<"id", Itoa(r.ID)>>, <<"title", r.Title>>, <<"content", r.Content>>,
     <<"created_at", FormatTime(r.CreatedAt)>>, <<"updated_at", FormatTime(r.UpdatedAt)>>}

\* C1: every cache key is absent or holds the current record of a live note
\* that the key names (by its id or by its title).
C1_CacheMirrorsStore ==
    \A k \in AllKeys :
        \/ cache[k] = {}
        \/ \E r \in Live(store) :
              /\ cache[k] = FiveFields(r)
              /\ k \in {IdKey(r.ID), TitleKey(r.Title)}

\* C2: GetNoteById(id) of a live note whose id key is not in the cache
\* returns the stored note and leaves the five fields of that note under
\* both notes:<id> and notes:<title>.
C2_ReadThroughPopulatesBothKeys ==
    [][\A r \in Live(store) :
          (/\ last'.op = "GetNoteById"
           /\ last'.id = r.ID
           /\ cache[IdKey(r.ID)] = {})
          => /\ last'.err = "nil"
             /\ last'.note = RowNote(r)
             /\ cache'[IdKey(r.ID)] = FiveFields(r)
             /\ cache'[TitleKey(r.Title)] = FiveFields(r)
             /\ store' = store]_vars

\* A read-through by id has just populated both keys of a stored note.
C2_Witness ==
    /\ last.op = "GetNoteById"
    /\ ~last.hit
    /\ last.id > 0
    /\ last.hsets > 0
    /\ \E r \in Live(store) :
          /\ r.ID = last.id
          /\ Exists(cache, IdKey(r.ID))
          /\ Exists(cache, TitleKey(r.Title))
          /\ IdKey(r.ID) # TitleKey(r.Title)

\* The record under key k decodes.
WellFormed(c, k) == c[k] # {} /\ convertMapToNote(c[k]).err = "nil"

\* C3: a getter whose probed key holds a well-formed record returns the note
\* decoded from it, calls the store zero times and writes nothing to the cache.
C3_CacheHitBypassesStore ==
    [][/\ (last'.op = "GetNoteById" /\ WellFormed(cache, IdKey(last'.id)))
          => /\ last'.note = convertMapToNote(cache[IdKey(last'.id)]).note
             /\ last'.err = "nil"
             /\ last'.dbOps = 0
             /\ last'.hsets = 0
             /\ cache' = cache
             /\ store' = store
       /\ (last'.op = "GetNoteByTitle" /\ WellFormed(cache, TitleKey(last'.title)))
          => /\ last'.note = convertMapToNote(cache[TitleKey(last'.title)]).note
             /\ last'.err = "nil"
             /\ last'.dbOps = 0
             /\ last'.hsets = 0
             /\ cache' = cache
             /\ store' = store]_vars

\* A getter has just been served from the cache.
C3_Witness ==
    /\ last.op \in {"GetNoteById", "GetNoteByTitle"}
    /\ last.hit
    /\ last.note # Nil
    /\ last.dbOps = 0

\* Both keys of row r hold a record of r (its id and its title).
CachedUnderBothKeys(c, r) ==
    \A k \in {IdKey(r.ID), TitleKey(r.Title)} :
        /\ WellFormed(c, k)
        /\ convertMapToNote(c[k]).note.ID = r.ID
        /\ convertMapToNote(c[k]).note.Title = r.Title

\* C4: a successful SaveNote of a modified copy of a note cached under both
\* keys leaves notes:<id> and notes:<old title> absent and the new field
\* values in the store.
C4_SaveInvalidatesOldKeys ==
    [][\A r \in Live(store) :
          (/\ last'.op = "SaveNote"
           /\ last'.id = r.ID
           /\ last'.err = "nil"
           /\ CachedUnderBothKeys(cache, r))
          => /\ cache'[IdKey(r.ID)] = {}
             /\ cache'[TitleKey(r.Title)] = {}
             /\ \E q \in Live(store') :
                   /\ q.ID = r.ID
                   /\ q.Title = last'.title
                   /\ q.Content = last'.content]_vars

\* C5: DeleteNote(id) of a live note cached under both keys returns no error,
\* leaves neither key in the cache, and the store no longer finds id.
C5_DeleteClearsCacheAndRow ==
    [][\A r \in Live(store) :
          (/\ last'.op = "DeleteNote"
           /\ last'.id = r.ID
           /\ CachedUnderBothKeys(cache, r))
          => /\ last'.err = "nil"
             /\ ~Exists(cache', IdKey(r.ID))
             /\ ~Exists(cache', TitleKey(r.Title))
             /\ DbFirst(store', r.ID).err = "ErrRecordNotFound"]_vars

\* C5, for the notes whose title is not empty: the same statement holds.
C5_DeleteClearsTitledNote ==
    [][\A r \in Live(store) :
          (/\ last'.op = "DeleteNote"
           /\ last'.id = r.ID
           /\ r.Title # ""
           /\ CachedUnderBothKeys(cache, r))
          => /\ last'.err = "nil"
             /\ ~Exists(cache', IdKey(r.ID))
             /\ ~Exists(cache', TitleKey(r.Title))
             /\ DbFirst(store', r.ID).err = "ErrRecordNotFound"]_vars

\* C6: on a cache miss GetNoteByTitle(title) returns the stored note with
\* that title, or no note when there is none, and has cached the note it
\* returns under both of its keys.
C6_GetNoteByTitleIsKeyedByTitle ==
    (last.op = "GetNoteByTitle" /\ ~last.hit /\ last.err = "nil")
    => LET titled == {r \in Live(store) : r.Title = last.title}
       IN  /\ titled = {} => last.note = Nil
           /\ \A r \in titled : last.note = RowNote(r)
           /\ last.note # Nil =>
                 /\ cache[IdKey(last.note.ID)] = FiveFields(last.note)
                 /\ cache[TitleKey(last.note.Title)] = FiveFields(last.note)

\* C7: GetNoteById(id) for an id (0 included) with no cache entry and no row
\* returns no note, does not panic and writes nothing to the cache.
C7_NotFoundIsNotAnError ==
    [][\A id \in IdInputs :
          (/\ last'.op = "GetNoteById"
           /\ last'.id = id
           /\ ~Exists(cache, IdKey(id))
           /\ LiveById(store, id) = {})
          => /\ last'.note = Nil
             /\ last'.err = "nil"
             /\ last'.hsets = 0
             /\ cache' = cache]_vars

\* C8: SaveNote adds no key and no field to the cache; saving a new note into
\* an empty cache leaves it empty while the store gains exactly that note.
C8_SaveNeverPopulatesCache ==
    [][last'.op = "SaveNote"
       => /\ \A k \in AllKeys : cache'[k] = cache[k] \/ cache'[k] = {}
          /\ last'.hsets = 0
          /\ (last'.id = 0 /\ last'.err = "nil" /\ \A k \in AllKeys : cache[k] = {})
             => /\ \A k \in AllKeys : cache'[k] = {}
                /\ \E r \in store' :
                      /\ r \notin store
                      /\ store' = store \cup {r}
                      /\ r.Title = last'.title
                      /\ r.Content = last'.content
                      /\ ~r.Deleted
                      /\ last'.note = RowNote(r)]_vars

\* SaveNote has just inserted a new note and the cache holds nothing.
C8_Witness ==
    /\ last.op = "SaveNote"
    /\ last.err = "nil"
    /\ last.id = 0
    /\ last.rows = 1
    /\ \A k \in AllKeys : cache[k] = {}
    /\ \E r \in Live(store) : RowNote(r) = last.note

\* C9: a DeleteNote(id) that directly follows a DeleteNote(id) without error
\* still calls the store's delete, which changes no row, returns no error and
\* leaves cache and store unchanged.
C9_IdempotentDelete ==
    [][(/\ last.op = "DeleteNote"
        /\ last.err = "nil"
        /\ last'.op = "DeleteNote"
        /\ last'.id = last.id)
       => /\ last'.err = "nil"
          /\ last'.dbOps = 1
          /\ last'.rows = 0
          /\ cache' = cache
          /\ store' = store]_vars

\* A DeleteNote has just run its store deletion against a row that an earlier
\* DeleteNote had already deleted.
C9_Witness ==
    /\ last.op = "DeleteNote"
    /\ last.err = "nil"
    /\ last.dbOps = 1
    /\ last.rows = 0
    /\ \E r \in store : r.ID = last.id /\ r.Deleted

\* C10: CreateNote returns DuplicateNoteError, without a SaveNote, exactly
\* when GetNoteByTitle finds a note; when no stored note has the title it
\* calls SaveNote and returns the saved note with that title and content; a
\* SaveNote failure comes back as SomethingWentWrongError.
C10_CreateNoteDuplicateCheck ==
    [][last'.op = "App.CreateNote"
       => LET found  == GetNoteByTitle(World, last'.title).note # Nil
              titled == {r \in Live(store) : r.Title = last'.title}
          IN  /\ last'.err \in {"nil", "DuplicateNoteError", "SomethingWentWrongError"}
              /\ (last'.err = "DuplicateNoteError") <=> found
              /\ last'.err = "DuplicateNoteError" => last'.saves = 0 /\ store' = store
              /\ last'.err = "SomethingWentWrongError" => last'.saves = 1
              /\ titled = {} =>
                    /\ last'.saves = 1
                    /\ last'.err = "nil" =>
                          /\ last'.note.Title = last'.title
                          /\ last'.note.Content = last'.content
                          /\ \E r \in Live(store') : RowNote(r) = last'.note]_vars

AppOps == {"App.CreateNote", "App.UpdateNote", "App.GetNoteById", "App.DeleteNote"}

\* C11: every Application call that returns, returns success or one of
\* DuplicateNoteError, NoteNotFoundError, SomethingWentWrongError, also when
\* a backend fails inside the repository: the backend's own error is never
\* what the caller gets.
C11_ApplicationErrorsCollapsed ==
    (last.op \in AppOps /\ last.err # "panic")
    => last.err \in {"nil", "DuplicateNoteError", "NoteNotFoundError",
                     "SomethingWentWrongError"}

\* C12: UpdateNote(id, content) returns NoteNotFoundError and writes nothing
\* to the store when GetNoteById(id) returns no note; when it succeeds, the
\* live row with that id has the new content and the title it had before,
\* and neither notes:<id> nor notes:<title> is in the cache.
C12_UpdateNote ==
    [][last'.op = "App.UpdateNote"
       => LET found == GetNoteById(World, last'.id).note
          IN  /\ found = Nil =>
                    /\ last'.err = "NoteNotFoundError"
                    /\ last'.saves = 0
                    /\ store' = store
              /\ (found # Nil /\ last'.err = "nil") =>
                    \E r \in Live(store') :
                       /\ r.ID = last'.id
                       /\ r.Content = last'.content
                       /\ \E q \in Live(store) : q.ID = r.ID /\ q.Title = r.Title
                       /\ cache'[IdKey(r.ID)] = {}
                       /\ cache'[TitleKey(r.Title)] = {}]_vars

\* C13: Application GetNoteById(id) and DeleteNote(id) return
\* NoteNotFoundError when the repository's GetNoteById(id) returns no note,
\* DeleteNote then makes no repository DeleteNote and changes neither store
\* nor cache; and once a DeleteNote(id) has succeeded, DeleteNote(id) called
\* again returns NoteNotFoundError.
C13_NotFoundPassThrough ==
    [][/\ (/\ last'.op \in {"App.GetNoteById", "App.DeleteNote"}
           /\ GetNoteById(World, last'.id).note = Nil)
          => /\ last'.err = "NoteNotFoundError"
             /\ last'.dels = 0
             /\ last'.dbOps = GetNoteById(World, last'.id).dbOps
             /\ store' = store
             /\ cache' = cache
       /\ (last'.op = "App.DeleteNote" /\ last'.err = "nil")
          => AppDeleteNote(World', last'.id).err = "NoteNotFoundError"]_vars

C17_SaveNoteFailureOutcomes ==
    [][last'.op = "SaveNote"
       => LET noKey           == last'.id = 0 /\ last'.title = ""
              invalidationErr == IF last'.fault = "redis" THEN RedisDown
                                 ELSE IF noKey THEN RedisDel(cache, <<>>).err
                                 ELSE "nil"
              upsertErr       == IF last'.fault = "db" THEN DbDown
                                 ELSE IF TitleTaken(store, last'.title, last'.id)
                                 THEN "unique_violation"
                                 ELSE "nil"
          IN  /\ invalidationErr # "nil" =>
                    /\ last'.err = invalidationErr
                    /\ last'.dbOps = 0
                    /\ store' = store /\ nextId' = nextId /\ now' = now
              /\ (invalidationErr = "nil" /\ upsertErr # "nil") =>
                    /\ last'.err = upsertErr
                    /\ last'.dels = 1
                    /\ last'.dbOps = 1
                    /\ store' = store
                    /\ last'.id > 0 => cache'[IdKey(last'.id)] = {}
                    /\ last'.title # "" => cache'[TitleKey(last'.title)] = {}
              /\ (invalidationErr = "nil" /\ upsertErr = "nil") =>
                    last'.err = "nil"]_vars

\* SaveNote of a changed copy of a stored note has just failed in the store
\* after its invalidation: the store still holds the old content and the
\* note's keys are not in the cache.
C17_Witness ==
    /\ last.op = "SaveNote"
    /\ last.fault = "db"
    /\ last.err = DbDown
    /\ last.dels = 1
    /\ last.title # ""
    /\ \E r \in Live(store) :
          /\ r.ID = last.id
          /\ r.Content # last.content
          /\ cache[IdKey(r.ID)] = {}
          /\ cache[TitleKey(last.title)] = {}

\* The record under key k is not empty and does not decode.
Undecodable(c, k) == c[k] # {} /\ convertMapToNote(c[k]).err # "nil"

\* C18: when the record under the key a call probes is not empty and does
\* not decode, GetNoteById, GetNoteByTitle and DeleteNote end in a panic and
\* have made no call to the store, no HSET and no DEL: cache and store are
\* unchanged.  (The probe is answered: redis is not down for the call.)
C18_FailLoudOnCorruptCache ==
    [][(/\ last'.fault # "redis"
        /\ \/ /\ last'.op \in {"GetNoteById", "DeleteNote"}
              /\ Undecodable(cache, IdKey(last'.id))
           \/ /\ last'.op = "GetNoteByTitle"
              /\ Undecodable(cache, TitleKey(last'.title)))
       => /\ last'.err = "panic"
          /\ last'.note = Nil
          /\ last'.dbOps = 0
          /\ last'.hsets = 0
          /\ last'.dels = 0
          /\ cache' = cache
          /\ store' = store
          /\ now' = now]_vars

\* DeleteNote has just panicked on the undecodable record of a live note,
\* which is still in the store.
C18_Witness ==
    /\ last.op = "DeleteNote"
    /\ last.err = "panic"
    /\ last.dbOps = 0
    /\ Undecodable(cache, IdKey(last.id))
    /\ \E r \in Live(store) : r.ID = last.id

\* C19, for the ids the store hands out: a note that GetNoteById(id) returns
\* has that id, and a SaveNote or DeleteNote of one note removes no cache
\* record of a note with another id and another title.
C19_KeysIndependent ==
    [][/\ (last'.op = "GetNoteById" /\ last'.id > 0 /\ last'.note # Nil)
          => last'.note.ID = last'.id
       /\ (last'.op \in {"SaveNote", "DeleteNote"})
          => \A k \in AllKeys :
                (/\ WellFormed(cache, k)
                 /\ cache'[k] = {}
                 /\ convertMapToNote(cache[k]).note.Title # last'.title)
                => convertMapToNote(cache[k]).note.ID = last'.id]_vars

\* The getter's result o is the note with primary key id.
Returns(o, id) == o.note # Nil /\ o.note.ID = id

\* C20, in its weakest reading and for notes with a title: once
\* DeleteNote(id) has deleted a live note and returned no error, neither
\* GetNoteById(id) nor GetNoteByTitle(the note's title), called next, returns
\* the deleted note.
C20_DeletedStaysDeleted ==
    [][\A r \in Live(store) :
          (/\ last'.op = "DeleteNote"
           /\ last'.id = r.ID
           /\ last'.err = "nil"
           /\ r.Title # "")
          => /\ ~Returns(GetNoteById(World', r.ID), r.ID)
             /\ ~Returns(GetNoteByTitle(World', r.Title), r.ID)]_vars

AllIdle == \A p \in Procs : procs[p].pc = "idle"

\* C14: when a SaveNote of a note starts with no reader left to overlap it,
\* in a state where notes:<id> and the title key hold a record of the note
\* that is not the store's (the state a reader leaves that read the store
\* between the invalidation and the upsert of an earlier SaveNote), then
\* after that SaveNote has succeeded no cache key holds a record of the note
\* that differs from the store's row; and no step of a reader removes a key.
C14_NextSaveClearsStaleEntries ==
    [][/\ (/\ procs["w"].pc = "save"
           /\ procs["w"].stale
           /\ procs'["w"].pc = "idle"
           /\ procs'["w"].err = "nil")
          => \A k \in AllKeys :
                (/\ WellFormedRecord(cache'[k])
                 /\ convertMapToNote(cache'[k]).note.ID = procs["w"].note.ID)
                => \E r \in Live(store') : cache'[k] = FiveFields(r)
       /\ procs'["r"] # procs["r"]
          => \A k \in AllKeys : cache[k] # {} => cache'[k] # {}]_vars

\* The race has happened: both calls have returned, the SaveNote with
\* success, and both keys hold the record the reader took from the store
\* before the upsert, while the store holds the updated row.
C14_StaleAfterRace ==
    /\ AllIdle
    /\ procs["w"].op = "SaveNote"
    /\ procs["w"].err = "nil"
    /\ procs["r"].op \in {"GetNoteById", "GetNoteByTitle"}
    /\ procs["r"].note # Nil
    /\ StaleUnderBothKeys(cache, store, procs["r"].note.ID)
    /\ \E r \in Live(store) : RowNote(r) = procs["w"].note

\* C16: no call reads a non-empty record with fewer than five fields from
\* notes:<id> or notes:<title>, and when no call is in progress every key
\* that exists holds exactly five fields.
C16_NoPartialRecord ==
    /\ \A p \in Procs : ~procs[p].short
    /\ AllIdle => \A k \in AllKeys :
                     cache[k] = {} \/ Cardinality(cache[k]) = Cardinality(Fields)

\* C24: a SaveNote of a note with no positive id and an empty title deletes
\* no cache key, leaves the cache as it was, and returns what the store's
\* upsert of that note returns, leaving the store as the upsert leaves it.
C24_EmptyInvalidationIsNoOp ==
    [][(last'.op = "SaveNote" /\ last'.id = 0 /\ last'.title = "")
       => LET result == DbSave(store, nextId, now, NewNote("", last'.content))
          IN  /\ cache' = cache
              /\ last'.err = result.err
              /\ last'.dbOps = 1
              /\ store' = result.store]_vars

\* C23: after DeleteNote has deleted the note titled T (T not empty, and no
\* other note is live), CreateNote(T, content) on the state the delete left
\* succeeds, and GetNoteByTitle(T) after it returns the new note (another
\* id, title T, the new content), not the deleted one.
C23_TitleReuseAfterDelete ==
    [][\A r \in Live(store) :
          (/\ last'.op = "App.DeleteNote"
           /\ last'.err = "nil"
           /\ r.Title # ""
           /\ r \notin Live(store')
           /\ Live(store') = {})
          => \A c \in Contents :
                LET created == AppCreateNote(World', r.Title, c)
                    got     == GetNoteByTitle(created.w, r.Title)
                IN  /\ created.err = "nil"
                    /\ got.note # Nil
                    /\ got.note.ID # r.ID
                    /\ got.note.Title = r.Title
                    /\ got.note.Content = c]_vars

\* C21: once a DeleteNote and a getter on the same note have both returned,
\* the DeleteNote with success, and the note (saved once and never updated,
\* its title not empty and not the text of its id) is deleted, the cache
\* holds nothing under the note's notes:<id> and notes:<title>.
C21_DeleteRacingReadLeavesNoResidue ==
    \A r \in store :
        (/\ AllIdle
         /\ procs["w"].op = "DeleteNote"
         /\ procs["w"].err = "nil"
         /\ procs["r"].op \in {"GetNoteById", "GetNoteByTitle"}
         /\ r.Deleted
         /\ r.UpdatedAt = r.CreatedAt
         /\ r.Title # ""
         /\ TitleKey(r.Title) # IdKey(r.ID))
        => /\ cache[IdKey(r.ID)] = {}
           /\ cache[TitleKey(r.Title)] = {}

\* C22: when two CreateNote calls with the same non-empty title have both
\* returned, at most one of them returned success, no two live rows have
\* one title, and each call that did not succeed returned DuplicateNoteError.
C22_ConcurrentCreatesKeepTitlesUnique ==
    (/\ AllIdle
     /\ \A p \in Procs : procs[p].op = "App.CreateNote"
     /\ procs["w"].key = procs["r"].key
     /\ procs["w"].key # TitleKey(""))
    => /\ ~(\A p \in Procs : procs[p].err = "nil")
       /\ \A r, q \in Live(store) : r.Title = q.Title => r = q
       /\ \A p \in Procs : procs[p].err \in {"nil", "DuplicateNoteError"}

====
